---- MODULE Spec2Model ----
(***************************************************************************)
(* CropStack settlement core: the order lifecycle, the listing stock, the   *)
(* escrow transaction ledger and the collateral pledges, as the client     *)
(* pages drive them against the shared Firestore collections `products`,   *)
(* `orders`, `transactions`, `withdrawals` and `collaterals`.              *)
(*                                                                         *)
(* Every handler is an async function: each awaited store call is one      *)
(* atomic step, and the steps of different sessions interleave freely.     *)
(* A handler decides on the order object it was handed by the page, which  *)
(* is the page's last fetched copy and may be stale.  Of a page's fetched  *)
(* list the model keeps the one row the user goes on to click: the other   *)
(* rows are read by no handler.                                            *)
(* An awaited store write may throw; the handler's catch/finally then runs *)
(* (no further write of that handler happens).  A throwing read has the    *)
(* same effect as the next write throwing, so only writes are modelled as  *)
(* failing.                                                                *)
(***************************************************************************)
EXTENDS Integers, Sequences, FiniteSets

\* ---------------------------------------------------------------- bounds
InitQty == 2      \* quantity_available of the listing when it is created
MaxReq == 2       \* largest quantity a buyer types into the product page
MaxOrders == 2    \* orders placed in one run
UnitPrice == 3    \* price_per_unit of the listing
MaxFail == 1      \* store writes that throw in one run

MaxPrice == 4     \* the price a seller edit sets
MaxLedger == 2    \* transactions of a ledger handed to the balance computation
MaxNew == 2       \* listings created through the new-product page in one run
LoanAmount == 2   \* loan_amount a seller types into the pledge form
MaxDay == 14      \* the last day the clock reaches
ExpiryDays == 7   \* handlePay: reservation_expiry is seven days after payment

Listings == {"L1"}
Buyers == {"b1", "b2"}          \* product-page sessions, one per buyer
Organizers == {"o1", "o2"}      \* organizer queue sessions
Payers == {"list", "receipt"}   \* buyer order-list page and order-receipt page
Seller == "s1"
Dashboards == {"d1", "d2"}      \* SellerDashboard sessions of the seller

Statuses == {"pending", "approved", "reserved", "completed", "cancelled"}

\* document ids that addDoc(collection 'products') hands out, in order of
\* creation (Firestore auto-ids, pairwise different)
ListingIds == <<"L1", "L2", "L3", "L4", "L5">>

\* values of Math.random().toString(36).substring(2, 8).toUpperCase()
PickupCodes == <<"K7M2QX", "B4T9ZD">>

\* values of generateCollateralId
CollateralIds == <<"COL-AAAAAAAA", "COL-BBBBBBBB">>

\* the values a Math.random draw from `values` can give when the values in
\* `used` have been drawn before: one of those again, or a value not drawn
\* yet.  The program compares drawn values for equality only, so the values
\* are named in the order of their first appearance.
Draws(values, used) ==
    {values[n] : n \in {m \in DOMAIN values :
                           \A k \in 1..(m - 1) : values[k] \in used}}

VARIABLES
    products,      \* collection products: listing -> document
    orders,        \* collection orders: sequence of documents, id = index
    transactions,  \* collection transactions: sequence of documents
    fails,         \* number of store writes that have thrown
    product,       \* ProductDetail state `product`: the listing shown, per buyer
    bpc,           \* ProductDetail.handleReserve position, per buyer
    quantity,      \* ProductDetail state `quantity`, per buyer
    latestQty,     \* handleReserve local latestQty, per buyer
    latestPrice,   \* handleReserve local latestPrice, per buyer
    queue,         \* OrganizerQueue state `orders`: the fetched row in view
    processing,    \* OrganizerQueue state `processing` (0 = null)
    opc,           \* organizer handler position
    oarg,          \* the order handed to the organizer handler
    currentQty,    \* handleReject local currentQty
    txSnap,        \* handleComplete local txSnap.docs still to release
    pview,         \* pay pages state `orders` / `order`: the fetched row in view
    paying,        \* pay pages state `paying` (0 = null / false)
    ppc,           \* handlePay position
    parg,          \* the order handed to handlePay
    withdrawals,   \* collection withdrawals: sequence of documents, id = index
    stats,         \* SellerDashboard state `stats`, per dashboard session
    wpc,           \* handleWithdraw position, per dashboard session
    amount,        \* handleWithdraw local amount
    withdrawalRef, \* handleWithdraw local withdrawalRef (the id; 0 = unset)
    formData,      \* EditProduct state `formData` (price and quantity fields)
    collaterals,   \* collection collaterals: sequence of documents, id = index
    purpose,       \* NewProduct state `purpose` ("none" = null / page closed)
    newForm,       \* NewProduct state `formData` (price, quantity, loan fields)
    productRef,    \* NewProduct.handleSubmit local productRef.id ("none" = unset)
    result,        \* VerifyCollateral state `result`
    now            \* the day new Date() falls on

store == <<products, orders, transactions>>
bvars == <<product, bpc, quantity, latestQty, latestPrice>>
ovars == <<queue, processing, opc, oarg, currentQty, txSnap>>
pvars == <<pview, paying, ppc, parg>>
svars == <<withdrawals, stats, wpc, amount, withdrawalRef, formData>>
nvars == <<collaterals, purpose, newForm, productRef, result, now>>
vars == <<products, orders, transactions, fails,
          product, bpc, quantity, latestQty, latestPrice,
          queue, processing, opc, oarg, currentQty, txSnap,
          pview, paying, ppc, parg,
          withdrawals, stats, wpc, amount, withdrawalRef, formData,
          collaterals, purpose, newForm, productRef, result, now>>

\* ---------------------------------------------------------------- helpers
OrderIds == 1..Len(orders)

Max(a, b) == IF a >= b THEN a ELSE b

NoRow == [id |-> 0, status |-> "none"]

\* an awaited store write commits (TRUE) or throws (FALSE); at most MaxFail
\* writes of a run throw
Outcomes == IF fails < MaxFail THEN {TRUE, FALSE} ELSE {TRUE}

\* `fails` counts the writes that have thrown
Thrown(ok) == fails' = IF ok THEN fails ELSE fails + 1

\* the copy of order i that a fetch of the collection ords hands to a page
\* whose rows carry a button in the statuses `live`; a row without a button
\* offers no handler and is kept as NoRow
Row(ords, i, live) ==
    IF ords[i].status \in live THEN [id |-> i, status |-> ords[i].status]
    ELSE NoRow

\* OrganizerQueue renders buttons for pending and reserved rows
QueueLive == {"pending", "reserved"}
\* the pay pages render the pay button for approved orders
PayLive == {"approved"}

\* SellerDashboard `stats` before the first fetchData: null, which
\* handleWithdraw treats as it treats a balance of 0
NullStats == [available_balance |-> 0, pending_payments |-> 0]

\* EditProduct `formData` while the edit page is not open
NoForm == [product |-> "none", price_per_unit |-> 0, quantity_available |-> 0]

\* NewProduct `formData` while the new-product page is not open
NoNewForm == [price_per_unit |-> 0, quantity_available |-> 0, loan_amount |-> 0]

\* VerifyCollateral `result` before a search has found a record: null
NoResult == [id |-> 0, collateral_id |-> "none", status |-> "none"]

\* the listing the seller put up for sale before the run starts
\* (NewProduct.handleSubmit with purpose 'sell')
FirstListing ==
    [seller_id |-> Seller, price_per_unit |-> UnitPrice,
     quantity_available |-> InitQty, is_active |-> TRUE, is_collateral |-> FALSE]

Init ==
    /\ products = [l \in Listings |-> FirstListing]
    /\ orders = <<>>
    /\ transactions = <<>>
    /\ fails = 0
    /\ product = [b \in Buyers |-> "none"]
    /\ bpc = [b \in Buyers |-> "left"]
    /\ quantity = [b \in Buyers |-> 1]
    /\ latestQty = [b \in Buyers |-> 0]
    /\ latestPrice = [b \in Buyers |-> 0]
    /\ queue = [o \in Organizers |-> NoRow]
    /\ processing = [o \in Organizers |-> 0]
    /\ opc = [o \in Organizers |-> "idle"]
    /\ oarg = [o \in Organizers |-> 0]
    /\ currentQty = [o \in Organizers |-> 0]
    /\ txSnap = [o \in Organizers |-> <<>>]
    /\ pview = [p \in Payers |-> NoRow]
    /\ paying = [p \in Payers |-> 0]
    /\ ppc = [p \in Payers |-> "idle"]
    /\ parg = [p \in Payers |-> 0]
    /\ withdrawals = <<>>
    /\ stats = [d \in Dashboards |-> NullStats]
    /\ wpc = [d \in Dashboards |-> "idle"]
    /\ amount = [d \in Dashboards |-> 0]
    /\ withdrawalRef = [d \in Dashboards |-> 0]
    /\ formData = NoForm
    /\ collaterals = <<>>
    /\ purpose = "none"
    /\ newForm = NoNewForm
    /\ productRef = "none"
    /\ result = NoResult
    /\ now = 0

\* ------------------------------------------------ ProductDetail (buyer)
\* the "Reserve Now" button is rendered enabled for quantity q when the
\* fetched product shows `cached` available
ReserveEnabled(cached, q) ==
    ~ (q <= 0 \/ q > cached \/ cached <= 0)

\* useEffect fetchProduct, then the buyer's input: the page of listing l
\* loads, the buyer types a quantity q that the loaded stock allows and
\* clicks Reserve Now.  The loaded quantity_available is read by the button
\* only, so it is not kept; handleReserve re-reads the listing later.
FetchProduct(b, l, q) ==
    /\ bpc[b] = "left"
    /\ ReserveEnabled(products[l].quantity_available, q)
    /\ Len(orders) + Cardinality({c \in Buyers : bpc[c] # "left"}) < MaxOrders
    /\ product' = [product EXCEPT ![b] = l]
    /\ quantity' = [quantity EXCEPT ![b] = q]
    /\ bpc' = [bpc EXCEPT ![b] = "getDoc"]
    /\ UNCHANGED <<store, fails, latestQty, latestPrice, ovars, pvars>>
    /\ UNCHANGED svars
    /\ UNCHANGED nvars

\* the stock that handleReserve writes back
NewQty(latest, q) == Max(0, latest - q)

\* a handleReserve that goes on to place the order without the stock re-check
HandleReserveUnchecked(b) ==
    /\ bpc[b] = "getDoc"
    /\ LET doc == products[product[b]] IN
         /\ latestQty' = [latestQty EXCEPT ![b] = doc.quantity_available]
         /\ latestPrice' = [latestPrice EXCEPT ![b] = doc.price_per_unit]
         /\ bpc' = [bpc EXCEPT ![b] = "addDoc"]
         /\ UNCHANGED <<product, quantity>>
    /\ UNCHANGED <<store, fails, ovars, pvars>>
    /\ UNCHANGED svars
    /\ UNCHANGED nvars

\* a handleReserve that, when its re-read finds no document, goes on with
\* the copy of the listing the page loaded
HandleReserveCached(b) ==
    /\ bpc[b] = "getDoc"
    /\ IF product[b] \notin DOMAIN products
       THEN /\ latestQty' = [latestQty EXCEPT ![b] = quantity[b]]
            /\ latestPrice' = [latestPrice EXCEPT ![b] = UnitPrice]
            /\ bpc' = [bpc EXCEPT ![b] = "addDoc"]
            /\ UNCHANGED <<product, quantity>>
       ELSE LET doc == products[product[b]] IN
            IF quantity[b] <= 0 \/ quantity[b] > doc.quantity_available
            THEN /\ bpc' = [bpc EXCEPT ![b] = "left"]
                 /\ product' = [product EXCEPT ![b] = "none"]
                 /\ quantity' = [quantity EXCEPT ![b] = 1]
                 /\ UNCHANGED <<latestQty, latestPrice>>
            ELSE /\ latestQty' = [latestQty EXCEPT ![b] = doc.quantity_available]
                 /\ latestPrice' = [latestPrice EXCEPT ![b] = doc.price_per_unit]
                 /\ bpc' = [bpc EXCEPT ![b] = "addDoc"]
                 /\ UNCHANGED <<product, quantity>>
    /\ UNCHANGED <<store, fails, ovars, pvars>>
    /\ UNCHANGED svars
    /\ UNCHANGED nvars

\* handleReserve up to the stock re-check: the quantity guard,
\* getDoc(products/id), the exists() guard and the comparison of quantity
\* with the live quantity_available
HandleReserve(b) ==
    /\ bpc[b] = "getDoc"
    /\ LET doc == products[product[b]] IN
         IF \/ quantity[b] <= 0
            \/ product[b] \notin DOMAIN products
            \/ quantity[b] > doc.quantity_available
         THEN /\ bpc' = [bpc EXCEPT ![b] = "left"]
              /\ product' = [product EXCEPT ![b] = "none"]
              /\ quantity' = [quantity EXCEPT ![b] = 1]
              /\ UNCHANGED <<latestQty, latestPrice>>
         ELSE /\ latestQty' = [latestQty EXCEPT ![b] = doc.quantity_available]
              /\ latestPrice' = [latestPrice EXCEPT ![b] = doc.price_per_unit]
              /\ bpc' = [bpc EXCEPT ![b] = "addDoc"]
              /\ UNCHANGED <<product, quantity>>
    /\ UNCHANGED <<store, fails, ovars, pvars>>
    /\ UNCHANGED svars
    /\ UNCHANGED nvars

\* the order document handleReserve adds; pickupCode is the code it drew.
\* seller_id is product.seller_id of the page's copy of the listing: every
\* listing of the model is the seller's.
NewOrder(b, pickupCode) ==
    [product_id |-> product[b],
     seller_id |-> Seller,
     quantity |-> quantity[b],
     total_price |-> latestPrice[b] * quantity[b],
     status |-> "pending",
     approved_at |-> FALSE, paid_at |-> FALSE, completed_at |-> FALSE,
     cancelled_at |-> FALSE, reservation_expiry |-> 0,
     pickup_code |-> pickupCode]

\* the buyer's page state once handleReserve has ended
BuyerDone(b) ==
    /\ bpc' = [bpc EXCEPT ![b] = "left"]
    /\ product' = [product EXCEPT ![b] = "none"]
    /\ quantity' = [quantity EXCEPT ![b] = 1]
    /\ latestQty' = [latestQty EXCEPT ![b] = 0]
    /\ latestPrice' = [latestPrice EXCEPT ![b] = 0]

\* handleReserve: the pickup code is drawn, then addDoc(collection
\* 'orders'); a throw ends the handler
ReserveAddDoc(b) ==
    /\ bpc[b] = "addDoc"
    /\ \E ok \in Outcomes :
         /\ Thrown(ok)
         /\ IF ok
            THEN /\ \E pickupCode \in Draws(PickupCodes,
                                  {orders[i].pickup_code : i \in OrderIds}) :
                      orders' = Append(orders, NewOrder(b, pickupCode))
                 /\ bpc' = [bpc EXCEPT ![b] = "updateDoc"]
                 /\ UNCHANGED <<product, quantity, latestQty, latestPrice>>
            ELSE /\ BuyerDone(b)
                 /\ UNCHANGED orders
    /\ UNCHANGED <<products, transactions, ovars, pvars>>
    /\ UNCHANGED svars
    /\ UNCHANGED nvars

\* handleReserve: updateDoc(products/id, quantity_available: newQty), then
\* router.push leaves the page; a throw ends the handler as well, and
\* updateDoc of a document that is not stored throws
ReserveUpdateDoc(b) ==
    /\ bpc[b] = "updateDoc"
    /\ IF product[b] \in DOMAIN products
       THEN \E ok \in Outcomes :
              /\ Thrown(ok)
              /\ IF ok
                 THEN products' = [products EXCEPT ![product[b]].quantity_available =
                                      NewQty(latestQty[b], quantity[b])]
                 ELSE UNCHANGED products
       ELSE UNCHANGED <<products, fails>>
    /\ BuyerDone(b)
    /\ UNCHANGED <<orders, transactions, ovars, pvars>>
    /\ UNCHANGED svars
    /\ UNCHANGED nvars

\* ------------------------------------------------ OrganizerQueue
\* a status write that also stores a newly drawn pickup code
SetStatusRecoded(i, st, stamp) ==
    [orders EXCEPT ![i] = [[[@ EXCEPT !.status = st] EXCEPT ![stamp] = TRUE]
                             EXCEPT !.pickup_code = PickupCodes[Len(PickupCodes)]]]

\* a status write to order i: updateDoc(orders/i, {status, <stamp>: now})
SetStatus(i, st, stamp) ==
    [orders EXCEPT ![i] = [[@ EXCEPT !.status = st] EXCEPT ![stamp] = TRUE]]

\* fetchData (mount and the 5 s interval): reload the orders; row i in view
FetchData(o, i) ==
    /\ opc[o] = "idle"
    /\ queue' = [queue EXCEPT ![o] = Row(orders, i, QueueLive)]
    /\ queue'[o] # queue[o]
    /\ UNCHANGED <<store, fails, bvars, processing, opc, oarg, currentQty, txSnap,
                   pvars>>
    /\ UNCHANGED svars
    /\ UNCHANGED nvars

\* the queue after `await fetchData()` at the end of a handler on order i
Refetched(o, ords, i) == [queue EXCEPT ![o] = Row(ords, i, QueueLive)]

\* the row in view shows the Approve / Reject buttons
ApproveShown(o, i) == queue[o].id = i /\ queue[o].status = "pending"
RejectShown(o, i) == queue[o].id = i /\ queue[o].status = "pending"
\* the row in view shows the Mark Picked Up button
CompleteShown(o, i) == queue[o].id = i /\ queue[o].status = "reserved"

\* a handleApprove that does not look at the in-flight flag
HandleApproveBusy(o, i) ==
    /\ ApproveShown(o, i)
    /\ \E ok \in Outcomes :
         /\ Thrown(ok)
         /\ IF ok
            THEN /\ orders' = SetStatus(i, "approved", "approved_at")
                 /\ queue' = Refetched(o, orders', i)
            ELSE UNCHANGED <<orders, queue>>
    /\ UNCHANGED <<products, transactions, bvars,
                   processing, opc, oarg, currentQty, txSnap, pvars>>
    /\ UNCHANGED svars
    /\ UNCHANGED nvars

\* handleApprove: one status write, then fetchData and processing := null
HandleApprove(o, i) ==
    /\ processing[o] = 0
    /\ opc[o] = "idle"
    /\ ApproveShown(o, i)
    /\ \E ok \in Outcomes :
         /\ Thrown(ok)
         /\ IF ok
            THEN /\ orders' = SetStatus(i, "approved", "approved_at")
                 /\ queue' = Refetched(o, orders', i)
            ELSE UNCHANGED <<orders, queue>>
    /\ UNCHANGED <<products, transactions, bvars,
                   processing, opc, oarg, currentQty, txSnap, pvars>>
    /\ UNCHANGED svars
    /\ UNCHANGED nvars

\* handleReject, first write: status cancelled
HandleReject(o, i) ==
    /\ processing[o] = 0
    /\ opc[o] = "idle"
    /\ RejectShown(o, i)
    /\ \E ok \in Outcomes :
         /\ Thrown(ok)
         /\ IF ok
            THEN /\ orders' = SetStatus(i, "cancelled", "cancelled_at")
                 /\ processing' = [processing EXCEPT ![o] = i]
                 /\ oarg' = [oarg EXCEPT ![o] = i]
                 /\ opc' = [opc EXCEPT ![o] = "getDoc"]
            ELSE UNCHANGED <<orders, processing, oarg, opc>>
    /\ UNCHANGED <<products, transactions, bvars,
                   queue, currentQty, txSnap, pvars>>
    /\ UNCHANGED svars
    /\ UNCHANGED nvars

\* handleReject: getDoc(products/order.product_id), currentQty
RejectGetDoc(o) ==
    /\ opc[o] = "getDoc"
    /\ currentQty' = [currentQty EXCEPT ![o] =
                        products[orders[oarg[o]].product_id].quantity_available]
    /\ opc' = [opc EXCEPT ![o] = "updateDoc"]
    /\ UNCHANGED <<store, fails, bvars, queue, processing, oarg, txSnap, pvars>>
    /\ UNCHANGED svars
    /\ UNCHANGED nvars

\* a restore that takes the order's quantity off the stock instead
RestoredQtyTaken(cur, q) == cur - q

\* the stock that handleReject writes back
RestoredQty(cur, q) == cur + q

\* handleReject: updateDoc(products/..., currentQty + order.quantity),
\* then fetchData and processing := null
RejectUpdateDoc(o) ==
    /\ opc[o] = "updateDoc"
    /\ LET i == oarg[o] IN
       \E ok \in Outcomes :
         /\ Thrown(ok)
         /\ IF ok
            THEN /\ products' = [products EXCEPT
                        ![orders[i].product_id].quantity_available =
                            RestoredQty(currentQty[o], orders[i].quantity)]
                 /\ queue' = Refetched(o, orders, i)
            ELSE UNCHANGED <<products, queue>>
    /\ processing' = [processing EXCEPT ![o] = 0]
    /\ opc' = [opc EXCEPT ![o] = "idle"]
    /\ oarg' = [oarg EXCEPT ![o] = 0]
    /\ currentQty' = [currentQty EXCEPT ![o] = 0]
    /\ UNCHANGED <<orders, transactions, bvars, txSnap, pvars>>
    /\ UNCHANGED svars
    /\ UNCHANGED nvars

\* handleComplete, first write: status completed
HandleComplete(o, i) ==
    /\ processing[o] = 0
    /\ opc[o] = "idle"
    /\ CompleteShown(o, i)
    /\ \E ok \in Outcomes :
         /\ Thrown(ok)
         /\ IF ok
            THEN /\ orders' = SetStatus(i, "completed", "completed_at")
                 /\ processing' = [processing EXCEPT ![o] = i]
                 /\ oarg' = [oarg EXCEPT ![o] = i]
                 /\ opc' = [opc EXCEPT ![o] = "getDocs"]
            ELSE UNCHANGED <<orders, processing, oarg, opc>>
    /\ UNCHANGED <<products, transactions, bvars,
                   queue, currentQty, txSnap, pvars>>
    /\ UNCHANGED svars
    /\ UNCHANGED nvars

\* ids of the held transactions of the seller of order i, whatever order
\* they reference
RECURSIVE HeldOfSeller(_, _)
HeldOfSeller(i, n) ==
    IF n = 0 THEN <<>>
    ELSE IF /\ transactions[n].seller_id = orders[i].seller_id
            /\ transactions[n].status = "held"
         THEN Append(HeldOfSeller(i, n - 1), n)
         ELSE HeldOfSeller(i, n - 1)

\* ids of the transactions matching order_id == i and status == 'held'
RECURSIVE HeldOf(_, _)
HeldOf(i, n) ==
    IF n = 0 THEN <<>>
    ELSE IF transactions[n].order_id = i /\ transactions[n].status = "held"
         THEN Append(HeldOf(i, n - 1), n)
         ELSE HeldOf(i, n - 1)

\* a handleComplete that takes an empty query result for a failure and
\* puts the order back to reserved
CompleteGetDocsRevert(o) ==
    /\ opc[o] = "getDocs"
    /\ LET docs == HeldOf(oarg[o], Len(transactions)) IN
         IF docs = <<>>
         THEN /\ orders' = [orders EXCEPT ![oarg[o]].status = "reserved",
                                          ![oarg[o]].completed_at = FALSE]
              /\ queue' = Refetched(o, orders', oarg[o])
              /\ processing' = [processing EXCEPT ![o] = 0]
              /\ opc' = [opc EXCEPT ![o] = "idle"]
              /\ oarg' = [oarg EXCEPT ![o] = 0]
              /\ UNCHANGED txSnap
         ELSE /\ txSnap' = [txSnap EXCEPT ![o] = docs]
              /\ opc' = [opc EXCEPT ![o] = "release"]
              /\ UNCHANGED <<orders, queue, processing, oarg>>
    /\ UNCHANGED <<products, transactions, fails, bvars, currentQty, pvars>>
    /\ UNCHANGED svars
    /\ UNCHANGED nvars

\* handleComplete: getDocs(txQuery); with no match the loop is empty and
\* fetchData and processing := null follow
CompleteGetDocs(o) ==
    /\ opc[o] = "getDocs"
    /\ LET docs == HeldOf(oarg[o], Len(transactions)) IN
         IF docs = <<>>
         THEN /\ queue' = Refetched(o, orders, oarg[o])
              /\ processing' = [processing EXCEPT ![o] = 0]
              /\ opc' = [opc EXCEPT ![o] = "idle"]
              /\ oarg' = [oarg EXCEPT ![o] = 0]
              /\ UNCHANGED txSnap
         ELSE /\ txSnap' = [txSnap EXCEPT ![o] = docs]
              /\ opc' = [opc EXCEPT ![o] = "release"]
              /\ UNCHANGED <<queue, processing, oarg>>
    /\ UNCHANGED <<store, fails, bvars, currentQty, pvars>>
    /\ UNCHANGED svars
    /\ UNCHANGED nvars

\* handleComplete: one pass of the loop, updateDoc(txDoc.ref, released);
\* after the last one fetchData and processing := null
CompleteRelease(o) ==
    /\ opc[o] = "release"
    /\ \E ok \in Outcomes :
         /\ Thrown(ok)
         /\ IF ok
            THEN /\ transactions' = [transactions EXCEPT
                                        ![Head(txSnap[o])].status = "released"]
                 /\ txSnap' = [txSnap EXCEPT ![o] = Tail(@)]
                 /\ IF Tail(txSnap[o]) = <<>>
                    THEN /\ queue' = Refetched(o, orders, oarg[o])
                         /\ processing' = [processing EXCEPT ![o] = 0]
                         /\ opc' = [opc EXCEPT ![o] = "idle"]
                         /\ oarg' = [oarg EXCEPT ![o] = 0]
                    ELSE UNCHANGED <<queue, processing, opc, oarg>>
            ELSE /\ txSnap' = [txSnap EXCEPT ![o] = <<>>]
                 /\ processing' = [processing EXCEPT ![o] = 0]
                 /\ opc' = [opc EXCEPT ![o] = "idle"]
                 /\ oarg' = [oarg EXCEPT ![o] = 0]
                 /\ UNCHANGED <<transactions, queue>>
    /\ UNCHANGED <<products, orders, bvars, currentQty, pvars>>
    /\ UNCHANGED svars
    /\ UNCHANGED nvars

\* ------------------------------------------------ pay pages (buyer)
\* ActiveStock.fetchOrders: the buyer's orders; row i in view.  Every order
\* of the model is shown: orders differ in buyer_id only, which no handler reads
FetchOrders(i) ==
    /\ ppc["list"] = "idle"
    /\ pview' = [pview EXCEPT !["list"] = Row(orders, i, PayLive)]
    /\ pview'["list"] # pview["list"]
    /\ UNCHANGED <<store, fails, bvars, ovars, paying, ppc, parg>>
    /\ UNCHANGED svars
    /\ UNCHANGED nvars

\* OrderReceipt.fetchOrder: the page of order id loads that order
FetchOrder(id) ==
    /\ ppc["receipt"] = "idle"
    /\ pview' = [pview EXCEPT !["receipt"] = Row(orders, id, PayLive)]
    /\ pview'["receipt"] # pview["receipt"]
    /\ UNCHANGED <<store, fails, bvars, ovars, paying, ppc, parg>>
    /\ UNCHANGED svars
    /\ UNCHANGED nvars

\* the page's copy after the fetch that ends handlePay for order i
Reloaded(p, ords, i) == [pview EXCEPT ![p] = Row(ords, i, PayLive)]

\* the Pay Now button of order i is rendered
PayShown(p, i) == pview[p].id = i /\ pview[p].status = "approved"

\* handlePay, first write: status reserved, paid_at, reservation_expiry
HandlePay(p, i) ==
    /\ paying[p] = 0
    /\ ppc[p] = "idle"
    /\ PayShown(p, i)
    /\ \E ok \in Outcomes :
         /\ Thrown(ok)
         /\ IF ok
            THEN /\ orders' = [orders EXCEPT ![i] =
                       [@ EXCEPT !.status = "reserved", !.paid_at = TRUE,
                                 !.reservation_expiry = now + ExpiryDays]]
                 /\ paying' = [paying EXCEPT ![p] = i]
                 /\ parg' = [parg EXCEPT ![p] = i]
                 /\ ppc' = [ppc EXCEPT ![p] = "addDoc"]
            ELSE UNCHANGED <<orders, paying, parg, ppc>>
    /\ UNCHANGED <<products, transactions, bvars, ovars,
                   pview>>
    /\ UNCHANGED svars
    /\ UNCHANGED nvars

\* a hold whose amount is recomputed from the listing's present price
HeldTxRecomputed(i) ==
    [seller_id |-> orders[i].seller_id, order_id |-> i,
     amount |-> orders[i].quantity
                * products[orders[i].product_id].price_per_unit,
     status |-> "held"]

\* the transaction handlePay adds for the order it was handed
HeldTx(i) ==
    [seller_id |-> orders[i].seller_id, order_id |-> i,
     amount |-> orders[i].total_price, status |-> "held"]

\* handlePay: addDoc(collection 'transactions'), then the page refetches
\* and paying := null; a throw goes to catch/finally (no write is undone)
PayAddDoc(p) ==
    /\ ppc[p] = "addDoc"
    /\ \E ok \in Outcomes :
         /\ Thrown(ok)
         /\ IF ok
            THEN /\ transactions' = Append(transactions, HeldTx(parg[p]))
                 /\ pview' = Reloaded(p, orders, parg[p])
            ELSE UNCHANGED <<transactions, pview>>
    /\ paying' = [paying EXCEPT ![p] = 0]
    /\ ppc' = [ppc EXCEPT ![p] = "idle"]
    /\ parg' = [parg EXCEPT ![p] = 0]
    /\ UNCHANGED <<products, orders, bvars, ovars>>
    /\ UNCHANGED svars
    /\ UNCHANGED nvars

\* ------------------------------------------------ SellerDashboard
RECURSIVE SumAmount(_, _, _, _)
\* txData.forEach over the first n transactions of txs that the query
\* where('seller_id', '==', user) returns: the sum of tx.amount over those
\* whose status is in sts
SumAmount(txs, n, user, sts) ==
    IF n = 0 THEN 0
    ELSE (IF txs[n].seller_id = user /\ txs[n].status \in sts
          THEN txs[n].amount ELSE 0)
         + SumAmount(txs, n - 1, user, sts)

\* a balance that counts released transactions only
AvailableBalanceReleasedOnly(txs, user) ==
    SumAmount(txs, Len(txs), user, {"released"})

\* fetchData: availableBalance += tx.amount for cleared / released
AvailableBalance(txs, user) ==
    SumAmount(txs, Len(txs), user, {"cleared", "released"})

\* fetchData: pendingPayments += tx.amount for held
PendingPayments(txs, user) ==
    SumAmount(txs, Len(txs), user, {"held"})

\* the stats that fetchData sets from the transactions txs
Stats(txs, user) ==
    [available_balance |-> AvailableBalance(txs, user),
     pending_payments |-> PendingPayments(txs, user)]

\* fetchData (mount and the 30 s interval) of dashboard d
SellerFetchData(d) ==
    /\ wpc[d] = "idle"
    /\ stats' = [stats EXCEPT ![d] = Stats(transactions, Seller)]
    /\ stats'[d] # stats[d]
    /\ UNCHANGED <<store, fails, bvars, ovars, pvars,
                   withdrawals, wpc, amount, withdrawalRef, formData>>
    /\ UNCHANGED nvars

\* the order_id of a withdrawal transaction: 'WITHDRAWAL-' followed by the
\* first 8 characters of the withdrawal id in upper case, a key outside the
\* order ids (the withdrawal ids of a run differ in those 8 characters)
WithdrawalRefId(w) == 0 - w

\* handleWithdraw up to its first write: the guard on the displayed
\* balance, amount, addDoc(collection 'withdrawals')
HandleWithdraw(d) ==
    /\ wpc[d] = "idle"
    /\ ~ (stats[d].available_balance <= 0)
    /\ \E ok \in Outcomes :
         /\ Thrown(ok)
         /\ IF ok
            THEN /\ withdrawals' = Append(withdrawals,
                        [seller_id |-> Seller,
                         amount |-> stats[d].available_balance,
                         status |-> "pending"])
                 /\ amount' = [amount EXCEPT ![d] = stats[d].available_balance]
                 /\ withdrawalRef' = [withdrawalRef EXCEPT ![d] = Len(withdrawals) + 1]
                 /\ wpc' = [wpc EXCEPT ![d] = "addDoc"]
            ELSE UNCHANGED <<withdrawals, amount, withdrawalRef, wpc>>
    /\ UNCHANGED <<store, bvars, ovars, pvars, stats, formData>>
    /\ UNCHANGED nvars

\* the transaction handleWithdraw adds
WithdrawalTx(d) ==
    [seller_id |-> Seller, order_id |-> WithdrawalRefId(withdrawalRef[d]),
     amount |-> 0 - amount[d], status |-> "released"]

\* handleWithdraw: addDoc(collection 'transactions'), then fetchData and
\* withdrawLoading := false; a throw goes to catch/finally
WithdrawAddDoc(d) ==
    /\ wpc[d] = "addDoc"
    /\ \E ok \in Outcomes :
         /\ Thrown(ok)
         /\ IF ok
            THEN /\ transactions' = Append(transactions, WithdrawalTx(d))
                 /\ stats' = [stats EXCEPT ![d] = Stats(transactions', Seller)]
            ELSE UNCHANGED <<transactions, stats>>
    /\ wpc' = [wpc EXCEPT ![d] = "idle"]
    /\ amount' = [amount EXCEPT ![d] = 0]
    /\ withdrawalRef' = [withdrawalRef EXCEPT ![d] = 0]
    /\ UNCHANGED <<products, orders, bvars, ovars, pvars, withdrawals, formData>>
    /\ UNCHANGED nvars

\* ------------------------------------------------ EditProduct (seller)
\* the prices a seller types into the edit form
Prices == {UnitPrice, MaxPrice}

\* useEffect fetchProduct of the edit page of listing l, then the seller's
\* input: the form is filled from the stored listing and the seller raises
\* the price to p (number -> toString -> parseFloat gives the number back)
EditFetchProduct(l, p) ==
    /\ formData = NoForm
    /\ p > products[l].price_per_unit
    /\ formData' = [product |-> l, price_per_unit |-> p,
                    quantity_available |-> products[l].quantity_available]
    /\ UNCHANGED <<store, fails, bvars, ovars, pvars,
                   withdrawals, stats, wpc, amount, withdrawalRef>>
    /\ UNCHANGED nvars

\* an edit that also carries the listing's new price and quantity into the
\* collateral records that refer to the listing
EditHandleSubmitLive ==
    /\ formData # NoForm
    /\ \E ok \in Outcomes :
         /\ Thrown(ok)
         /\ IF ok
            THEN /\ products' = [products EXCEPT
                    ![formData.product].price_per_unit = formData.price_per_unit,
                    ![formData.product].quantity_available =
                        formData.quantity_available]
                 /\ collaterals' = [k \in DOMAIN collaterals |->
                        IF collaterals[k].product_id = formData.product
                        THEN [collaterals[k] EXCEPT
                                !.crop_price_per_unit = formData.price_per_unit,
                                !.crop_quantity = formData.quantity_available]
                        ELSE collaterals[k]]
                 /\ formData' = NoForm
            ELSE UNCHANGED <<products, formData, collaterals>>
    /\ UNCHANGED <<orders, transactions, bvars, ovars, pvars,
                   withdrawals, stats, wpc, amount, withdrawalRef>>
    /\ UNCHANGED <<purpose, newForm, productRef, result, now>>

\* EditProduct.handleSubmit: updateDoc(products/id) with the form's
\* price_per_unit and quantity_available, then the page is left
EditHandleSubmit ==
    /\ formData # NoForm
    /\ \E ok \in Outcomes :
         /\ Thrown(ok)
         /\ IF ok
            THEN /\ products' = [products EXCEPT
                    ![formData.product].price_per_unit = formData.price_per_unit,
                    ![formData.product].quantity_available =
                        formData.quantity_available]
                 /\ formData' = NoForm
            ELSE UNCHANGED <<products, formData>>
    /\ UNCHANGED <<orders, transactions, bvars, ovars, pvars,
                   withdrawals, stats, wpc, amount, withdrawalRef>>
    /\ UNCHANGED nvars

\* ------------------------------------------------ NewProduct (seller)
\* the seller picks the purpose pur on the new-product page and fills the
\* form: price, quantity and, for a pledge, the loan amount (the inputs are
\* number fields; parseFloat of their text gives the number typed)
SetPurpose(pur, price, qty) ==
    /\ purpose = "none"
    /\ Cardinality(DOMAIN products) < Cardinality(Listings) + MaxNew
    /\ purpose' = pur
    /\ newForm' = [price_per_unit |-> price, quantity_available |-> qty,
                   loan_amount |-> IF pur = "collateral" THEN LoanAmount ELSE 0]
    /\ UNCHANGED <<store, fails, bvars, ovars, pvars, svars,
                   collaterals, productRef, result, now>>

\* a listing document that is put on the market whatever its purpose
NewProductDocListed(isCollateral) ==
    [seller_id |-> Seller,
     price_per_unit |-> newForm.price_per_unit,
     quantity_available |-> newForm.quantity_available,
     is_active |-> TRUE,
     is_collateral |-> isCollateral]

\* the listing document handleSubmit adds
NewProductDoc(isCollateral) ==
    [seller_id |-> Seller,
     price_per_unit |-> newForm.price_per_unit,
     quantity_available |-> newForm.quantity_available,
     is_active |-> ~ isCollateral,
     is_collateral |-> isCollateral]

\* the page once handleSubmit has ended with the listing stored
NewProductDone ==
    /\ purpose' = "none"
    /\ newForm' = NoNewForm
    /\ productRef' = "none"

\* handleSubmit up to its first write: addDoc(collection 'products').  A
\* sale then leaves the page; a pledge goes on to the collateral record.
\* A throw goes to the catch, which leaves the form as it is.
NewHandleSubmit ==
    /\ purpose # "none"
    /\ productRef = "none"
    /\ Cardinality(DOMAIN products) < Cardinality(Listings) + MaxNew
    /\ LET isCollateral == purpose = "collateral"
           id == ListingIds[Cardinality(DOMAIN products) + 1]
       IN \E ok \in Outcomes :
            /\ Thrown(ok)
            /\ IF ok
               THEN /\ products' = [l \in DOMAIN products \cup {id} |->
                                      IF l = id THEN NewProductDoc(isCollateral)
                                      ELSE products[l]]
                    /\ IF isCollateral
                       THEN /\ productRef' = id
                            /\ UNCHANGED <<purpose, newForm>>
                       ELSE NewProductDone
               ELSE UNCHANGED <<products, purpose, newForm, productRef>>
    /\ UNCHANGED <<orders, transactions, bvars, ovars, pvars, svars,
                   collaterals, result, now>>

\* the collateral record handleSubmit adds under the id colId: the crop
\* fields are the values parsed from the form, not a reference to the listing
CollateralDoc(colId) ==
    [collateral_id |-> colId,
     seller_id |-> Seller,
     product_id |-> productRef,
     crop_quantity |-> newForm.quantity_available,
     crop_price_per_unit |-> newForm.price_per_unit,
     crop_total_value |-> newForm.price_per_unit * newForm.quantity_available,
     loan_amount_requested |-> newForm.loan_amount,
     status |-> "pending"]

\* handleSubmit for a pledge: generateCollateralId draws the id (eight
\* random characters, compared with no earlier id), then addDoc(collection
\* 'collaterals') and the receipt is shown.  A throw goes to the catch: the
\* listing stays stored and the form stays filled.
NewAddCollateral ==
    /\ productRef # "none"
    /\ \E ok \in Outcomes :
         /\ Thrown(ok)
         /\ IF ok
            THEN /\ \E colId \in Draws(CollateralIds,
                        {collaterals[k].collateral_id : k \in DOMAIN collaterals}) :
                      collaterals' = Append(collaterals, CollateralDoc(colId))
                 /\ NewProductDone
            ELSE /\ productRef' = "none"
                 /\ UNCHANGED <<collaterals, purpose, newForm>>
    /\ UNCHANGED <<store, bvars, ovars, pvars, svars, result, now>>

\* ------------------------------------------------ buyer dashboard
\* fetchData: the listings the marketplace shows, where('is_active', '==', true)
ActiveListings == {l \in DOMAIN products : products[l].is_active}

\* ------------------------------------------------ VerifyCollateral (bank)
\* the records the query where('collateral_id', '==', trimmed) returns
Matching(trimmed) ==
    {k \in DOMAIN collaterals : collaterals[k].collateral_id = trimmed}

\* the record the page keeps of the stored collateral k
Found(k) ==
    [id |-> k, collateral_id |-> collaterals[k].collateral_id,
     status |-> collaterals[k].status]

\* handleSearch for the id that trim().toUpperCase() leaves of the text
\* typed: no match gives the error and result null, otherwise snapshot.docs[0]
\* is shown.  The query is unordered, so documents come in the order of
\* their auto-ids: any of the matching records can be the first.
HandleSearch(trimmed) ==
    /\ IF Matching(trimmed) = {}
       THEN result' = NoResult
       ELSE \E k \in Matching(trimmed) : result' = Found(k)
    /\ result' # result
    /\ UNCHANGED <<store, fails, bvars, ovars, pvars, svars,
                   collaterals, purpose, newForm, productRef, now>>

\* ------------------------------------------------ pledge status (verifier)
PledgeStatuses == {"pending", "verified", "active", "released", "defaulted"}

\* a status check that lets any pledge that is not settled move anywhere
ValidTransitionAnyOpen(from, to) ==
    from \notin {"released", "defaulted"} /\ to # from

\* the forward transitions of a pledge
ValidTransition(from, to) ==
    <<from, to>> \in { <<"pending", "verified">>, <<"verified", "active">>,
                       <<"active", "released">>, <<"active", "defaulted">> }

\* AdvanceStatus(pledge, newStatus), invoked by the verifying party: a
\* forward transition is written, any other target fails with
\* InvalidTransition and writes nothing
AdvanceStatus(k, newStatus) ==
    /\ IF ValidTransition(collaterals[k].status, newStatus)
       THEN collaterals' = [collaterals EXCEPT ![k].status = newStatus]
       ELSE UNCHANGED collaterals
    /\ UNCHANGED <<store, fails, bvars, ovars, pvars, svars,
                   purpose, newForm, productRef, result, now>>

\* ------------------------------------------------ the clock
\* a week passes: new Date() moves on by the length of a reservation
Tick ==
    /\ now + ExpiryDays <= MaxDay
    /\ now' = now + ExpiryDays
    /\ UNCHANGED <<store, fails, bvars, ovars, pvars, svars,
                   collaterals, purpose, newForm, productRef, result>>

\* OrderReceipt: daysRemaining of the order o on the day today
\* (differenceInDays of two dates that are whole days apart)
DaysRemaining(o, today) ==
    IF o.reservation_expiry # 0 THEN o.reservation_expiry - today ELSE 0

\* OrderReceipt: isExpired
IsExpired(o, today) ==
    DaysRemaining(o, today) <= 0 /\ o.status = "reserved"

\* OrderReceipt: getStatusLabel
GetStatusLabel(o, today) ==
    IF IsExpired(o, today) THEN "EXPIRED"
    ELSE IF o.status = "pending" THEN "PENDING APPROVAL"
    ELSE IF o.status = "approved" THEN "APPROVED - PAY NOW"
    ELSE IF o.status = "reserved" THEN "PAID - PICKUP READY"
    ELSE IF o.status = "completed" THEN "COMPLETED"
    ELSE "CANCELLED"

\* ---------------------------------------------------------------- system
\* The settlement scenario: one product page, one organizer queue and the
\* order-list page drive every handler of the order lifecycle.
Next ==
    \/ \E l \in Listings, q \in 1..MaxReq : FetchProduct("b1", l, q)
    \/ HandleReserve("b1")
    \/ ReserveAddDoc("b1")
    \/ ReserveUpdateDoc("b1")
    \/ \E i \in OrderIds : FetchData("o1", i)
    \/ \E i \in OrderIds : HandleApprove("o1", i)
    \/ \E i \in OrderIds : HandleReject("o1", i)
    \/ RejectGetDoc("o1")
    \/ RejectUpdateDoc("o1")
    \/ \E i \in OrderIds : HandleComplete("o1", i)
    \/ CompleteGetDocs("o1")
    \/ CompleteRelease("o1")
    \/ \E i \in OrderIds : FetchOrders(i)
    \/ \E i \in OrderIds : HandlePay("list", i)
    \/ PayAddDoc("list")

Spec == Init /\ [][Next]_vars

\* The payment scenario: as above, with the order-receipt page open beside
\* the order-list page.
NextPay ==
    \/ \E l \in Listings, q \in 1..MaxReq : FetchProduct("b1", l, q)
    \/ HandleReserve("b1")
    \/ ReserveAddDoc("b1")
    \/ ReserveUpdateDoc("b1")
    \/ \E i \in OrderIds : FetchData("o1", i)
    \/ \E i \in OrderIds : HandleApprove("o1", i)
    \/ \E i \in OrderIds : HandleReject("o1", i)
    \/ RejectGetDoc("o1")
    \/ RejectUpdateDoc("o1")
    \/ \E i \in OrderIds : HandleComplete("o1", i)
    \/ CompleteGetDocs("o1")
    \/ CompleteRelease("o1")
    \/ \E i \in OrderIds : FetchOrders(i)
    \/ \E i \in OrderIds : FetchOrder(i)
    \/ \E p \in Payers, i \in OrderIds : HandlePay(p, i)
    \/ \E p \in Payers : PayAddDoc(p)

SpecPay == Init /\ [][NextPay]_vars

\* The stock scenario: two product pages and one organizer queue place,
\* approve and reject orders against the listing's stock.
NextStock ==
    \/ \E b \in Buyers, l \in Listings, q \in 1..MaxReq : FetchProduct(b, l, q)
    \/ \E b \in Buyers : HandleReserve(b)
    \/ \E b \in Buyers : ReserveAddDoc(b)
    \/ \E b \in Buyers : ReserveUpdateDoc(b)
    \/ \E i \in OrderIds : FetchData("o1", i)
    \/ \E i \in OrderIds : HandleApprove("o1", i)
    \/ \E i \in OrderIds : HandleReject("o1", i)
    \/ RejectGetDoc("o1")
    \/ RejectUpdateDoc("o1")

SpecStock == Init /\ [][NextStock]_vars

\* The queue scenario: one product page and two organizer queues.
NextQueue ==
    \/ \E l \in Listings, q \in 1..MaxReq : FetchProduct("b1", l, q)
    \/ HandleReserve("b1")
    \/ ReserveAddDoc("b1")
    \/ ReserveUpdateDoc("b1")
    \/ \E o \in Organizers, i \in OrderIds : FetchData(o, i)
    \/ \E o \in Organizers, i \in OrderIds : HandleApprove(o, i)
    \/ \E o \in Organizers, i \in OrderIds : HandleReject(o, i)
    \/ \E o \in Organizers : RejectGetDoc(o)
    \/ \E o \in Organizers : RejectUpdateDoc(o)

SpecQueue == Init /\ [][NextQueue]_vars

\* The ledger scenario: orders are placed, approved, paid and completed
\* while two dashboard sessions of the seller are open.
NextLedger ==
    \/ \E l \in Listings, q \in 1..MaxReq : FetchProduct("b1", l, q)
    \/ HandleReserve("b1")
    \/ ReserveAddDoc("b1")
    \/ ReserveUpdateDoc("b1")
    \/ \E i \in OrderIds : FetchData("o1", i)
    \/ \E i \in OrderIds : HandleApprove("o1", i)
    \/ \E i \in OrderIds : HandleComplete("o1", i)
    \/ CompleteGetDocs("o1")
    \/ CompleteRelease("o1")
    \/ \E i \in OrderIds : FetchOrders(i)
    \/ \E i \in OrderIds : HandlePay("list", i)
    \/ PayAddDoc("list")
    \/ \E d \in Dashboards : SellerFetchData(d)
    \/ \E d \in Dashboards : HandleWithdraw(d)
    \/ \E d \in Dashboards : WithdrawAddDoc(d)

SpecLedger == Init /\ [][NextLedger]_vars

\* The price scenario: orders are placed, approved and paid while the seller
\* edits the listing.
NextPrice ==
    \/ \E l \in Listings, q \in 1..MaxReq : FetchProduct("b1", l, q)
    \/ HandleReserve("b1")
    \/ ReserveAddDoc("b1")
    \/ ReserveUpdateDoc("b1")
    \/ \E i \in OrderIds : FetchData("o1", i)
    \/ \E i \in OrderIds : HandleApprove("o1", i)
    \/ \E i \in OrderIds : FetchOrders(i)
    \/ \E i \in OrderIds : HandlePay("list", i)
    \/ PayAddDoc("list")
    \/ \E l \in Listings, p \in Prices : EditFetchProduct(l, p)
    \/ EditHandleSubmit

SpecPrice == Init /\ [][NextPrice]_vars

\* The pickup scenario: an order has been placed; one organizer queue
\* approves it and hands it over, a second one rejects, the buyer pays on
\* the order-list page, and the clock runs.
InitPlaced ==
    /\ \E q \in 1..MaxReq :
         /\ q <= InitQty
         /\ products = [l \in Listings |->
                          [FirstListing EXCEPT !.quantity_available = NewQty(InitQty, q)]]
         /\ orders = << [product_id |-> "L1", seller_id |-> Seller, quantity |-> q,
                         total_price |-> UnitPrice * q, status |-> "pending",
                         approved_at |-> FALSE, paid_at |-> FALSE,
                         completed_at |-> FALSE, cancelled_at |-> FALSE,
                         reservation_expiry |-> 0,
                         pickup_code |-> PickupCodes[1]] >>
    /\ transactions = <<>>
    /\ fails = 0
    /\ product = [b \in Buyers |-> "none"]
    /\ bpc = [b \in Buyers |-> "left"]
    /\ quantity = [b \in Buyers |-> 1]
    /\ latestQty = [b \in Buyers |-> 0]
    /\ latestPrice = [b \in Buyers |-> 0]
    /\ queue = [o \in Organizers |-> NoRow]
    /\ processing = [o \in Organizers |-> 0]
    /\ opc = [o \in Organizers |-> "idle"]
    /\ oarg = [o \in Organizers |-> 0]
    /\ currentQty = [o \in Organizers |-> 0]
    /\ txSnap = [o \in Organizers |-> <<>>]
    /\ pview = [p \in Payers |-> NoRow]
    /\ paying = [p \in Payers |-> 0]
    /\ ppc = [p \in Payers |-> "idle"]
    /\ parg = [p \in Payers |-> 0]
    /\ withdrawals = <<>>
    /\ stats = [d \in Dashboards |-> NullStats]
    /\ wpc = [d \in Dashboards |-> "idle"]
    /\ amount = [d \in Dashboards |-> 0]
    /\ withdrawalRef = [d \in Dashboards |-> 0]
    /\ formData = NoForm
    /\ collaterals = <<>>
    /\ purpose = "none"
    /\ newForm = NoNewForm
    /\ productRef = "none"
    /\ result = NoResult
    /\ now = 0

NextPickup ==
    \/ \E o \in Organizers, i \in OrderIds : FetchData(o, i)
    \/ \E i \in OrderIds : HandleApprove("o2", i)
    \/ \E i \in OrderIds : HandleReject("o1", i)
    \/ RejectGetDoc("o1")
    \/ RejectUpdateDoc("o1")
    \/ \E i \in OrderIds : HandleComplete("o2", i)
    \/ CompleteGetDocs("o2")
    \/ CompleteRelease("o2")
    \/ \E i \in OrderIds : FetchOrders(i)
    \/ \E i \in OrderIds : HandlePay("list", i)
    \/ PayAddDoc("list")
    \/ Tick

SpecPickup == InitPlaced /\ [][NextPickup]_vars

\* The handover scenario: the buyer orders the whole stock shown, and one
\* organizer queue and the order-list page take each order to its end.
NextHandover ==
    \/ \E l \in Listings : FetchProduct("b1", l, products[l].quantity_available)
    \/ HandleReserve("b1")
    \/ ReserveAddDoc("b1")
    \/ ReserveUpdateDoc("b1")
    \/ \E i \in OrderIds : FetchData("o1", i)
    \/ \E i \in OrderIds : HandleApprove("o1", i)
    \/ \E i \in OrderIds : HandleReject("o1", i)
    \/ RejectGetDoc("o1")
    \/ RejectUpdateDoc("o1")
    \/ \E i \in OrderIds : HandleComplete("o1", i)
    \/ CompleteGetDocs("o1")
    \/ CompleteRelease("o1")
    \/ \E i \in OrderIds : FetchOrders(i)
    \/ \E i \in OrderIds : HandlePay("list", i)
    \/ PayAddDoc("list")

SpecHandover == Init /\ [][NextHandover]_vars

\* the purposes the new-product page offers
Purposes == {"sell", "collateral"}

\* The pledge scenario: the seller puts up listings for sale or as
\* collateral and edits them, and the bank looks pledges up.
NextPledge ==
    \/ \E pur \in Purposes, qty \in 1..InitQty : SetPurpose(pur, UnitPrice, qty)
    \/ NewHandleSubmit
    \/ NewAddCollateral
    \/ \E n \in DOMAIN CollateralIds : HandleSearch(CollateralIds[n])
    \/ \E l \in DOMAIN products, p \in Prices : EditFetchProduct(l, p)
    \/ EditHandleSubmit

SpecPledge == Init /\ [][NextPledge]_vars

\* The market scenario: the seller puts up listings for sale or as
\* collateral, and a buyer opens listings by their id and places orders.
NextMarket ==
    \/ \E pur \in Purposes, qty \in 1..InitQty : SetPurpose(pur, UnitPrice, qty)
    \/ NewHandleSubmit
    \/ NewAddCollateral
    \/ \E l \in DOMAIN products, q \in 1..MaxReq : FetchProduct("b1", l, q)
    \/ HandleReserve("b1")
    \/ ReserveAddDoc("b1")
    \/ ReserveUpdateDoc("b1")

SpecMarket == Init /\ [][NextMarket]_vars

\* The verification scenario: the seller pledges listings, the verifying
\* party advances the pledges and the bank looks them up.
NextVerify ==
    \/ \E qty \in 1..InitQty : SetPurpose("collateral", UnitPrice, qty)
    \/ NewHandleSubmit
    \/ NewAddCollateral
    \/ \E n \in DOMAIN CollateralIds : HandleSearch(CollateralIds[n])
    \/ \E k \in DOMAIN collaterals, st \in PledgeStatuses : AdvanceStatus(k, st)

SpecVerify == Init /\ [][NextVerify]_vars

\* the prices a seller types into the new-product form: the price field is
\* a required number input without a lower limit
OfferPrices == {0, UnitPrice}

\* The offer scenario: the seller puts up further listings for sale, a buyer
\* orders the whole stock of a listing, the organizer approves and the
\* buyer pays.
NextOffer ==
    \/ \E price \in OfferPrices : SetPurpose("sell", price, InitQty)
    \/ NewHandleSubmit
    \/ \E l \in DOMAIN products : FetchProduct("b1", l, products[l].quantity_available)
    \/ HandleReserve("b1")
    \/ ReserveAddDoc("b1")
    \/ ReserveUpdateDoc("b1")
    \/ \E i \in OrderIds : FetchData("o1", i)
    \/ \E i \in OrderIds : HandleApprove("o1", i)
    \/ \E i \in OrderIds : FetchOrders(i)
    \/ \E i \in OrderIds : HandlePay("list", i)
    \/ PayAddDoc("list")

SpecOffer == Init /\ [][NextOffer]_vars

\* the order a buyer has placed for one unit of L1 under pickup code n
PlacedOrder(n) ==
    [product_id |-> "L1", seller_id |-> Seller, quantity |-> 1,
     total_price |-> UnitPrice, status |-> "pending",
     approved_at |-> FALSE, paid_at |-> FALSE,
     completed_at |-> FALSE, cancelled_at |-> FALSE,
     reservation_expiry |-> 0, pickup_code |-> PickupCodes[n]]

\* The settlement-frame scenario: two orders of one unit each have been
\* placed; one organizer queue approves and hands over, the buyer pays on
\* the order-list page and the seller withdraws from one dashboard.
InitTwoPlaced ==
    /\ products = [l \in Listings |->
                     [FirstListing EXCEPT !.quantity_available =
                         NewQty(NewQty(InitQty, 1), 1)]]
    /\ orders = << PlacedOrder(1), PlacedOrder(2) >>
    /\ transactions = <<>>
    /\ fails = 0
    /\ product = [b \in Buyers |-> "none"]
    /\ bpc = [b \in Buyers |-> "left"]
    /\ quantity = [b \in Buyers |-> 1]
    /\ latestQty = [b \in Buyers |-> 0]
    /\ latestPrice = [b \in Buyers |-> 0]
    /\ queue = [o \in Organizers |-> NoRow]
    /\ processing = [o \in Organizers |-> 0]
    /\ opc = [o \in Organizers |-> "idle"]
    /\ oarg = [o \in Organizers |-> 0]
    /\ currentQty = [o \in Organizers |-> 0]
    /\ txSnap = [o \in Organizers |-> <<>>]
    /\ pview = [p \in Payers |-> NoRow]
    /\ paying = [p \in Payers |-> 0]
    /\ ppc = [p \in Payers |-> "idle"]
    /\ parg = [p \in Payers |-> 0]
    /\ withdrawals = <<>>
    /\ stats = [d \in Dashboards |-> NullStats]
    /\ wpc = [d \in Dashboards |-> "idle"]
    /\ amount = [d \in Dashboards |-> 0]
    /\ withdrawalRef = [d \in Dashboards |-> 0]
    /\ formData = NoForm
    /\ collaterals = <<>>
    /\ purpose = "none"
    /\ newForm = NoNewForm
    /\ productRef = "none"
    /\ result = NoResult
    /\ now = 0

NextSettle ==
    \/ \E i \in OrderIds : FetchData("o1", i)
    \/ \E i \in OrderIds : HandleApprove("o1", i)
    \/ \E i \in OrderIds : HandleComplete("o1", i)
    \/ CompleteGetDocs("o1")
    \/ CompleteRelease("o1")
    \/ \E i \in OrderIds : FetchOrders(i)
    \/ \E i \in OrderIds : HandlePay("list", i)
    \/ PayAddDoc("list")
    \/ SellerFetchData("d1")
    \/ HandleWithdraw("d1")
    \/ WithdrawAddDoc("d1")

SpecSettle == InitTwoPlaced /\ [][NextSettle]_vars

\* the quantity the product page keeps when the buyer types the number v
\* into the quantity field: Math.max(1, parseInt(value) || 1)
TypedQuantity(v) == Max(1, IF v = 0 THEN 1 ELSE v)

\* the numbers a buyer types into the quantity field
TypedValues == (0 - 1)..MaxReq

\* the listing document l is deleted from the collection `products`
DeleteListing(l) ==
    /\ products' = [k \in DOMAIN products \ {l} |-> products[k]]
    /\ UNCHANGED <<orders, transactions, fails, bvars, ovars, pvars>>
    /\ UNCHANGED svars
    /\ UNCHANGED nvars

\* The removal scenario: two buyers have the product page of a listing open
\* and place orders while the listing is deleted from the store.
NextGone ==
    \/ \E b \in Buyers, l \in DOMAIN products, v \in TypedValues :
          FetchProduct(b, l, TypedQuantity(v))
    \/ \E b \in Buyers : HandleReserve(b)
    \/ \E b \in Buyers : ReserveAddDoc(b)
    \/ \E b \in Buyers : ReserveUpdateDoc(b)
    \/ \E l \in DOMAIN products : DeleteListing(l)

SpecGone == Init /\ [][NextGone]_vars

\* the transactions a ledger can hold: holds of either seller in the
\* statuses the dashboard reads, and withdrawals
LedgerTx ==
    [seller_id : {Seller, "s2"}, order_id : {1},
     amount : {UnitPrice, 2 * UnitPrice}, status : {"held", "released", "cleared"}]
    \cup [seller_id : {Seller, "s2"}, order_id : {WithdrawalRefId(1)},
          amount : {0 - UnitPrice}, status : {"released"}]

\* ledgers of at most MaxLedger transactions
Ledgers ==
    UNION {[1..n -> LedgerTx] : n \in 0..MaxLedger}

\* The balance scenario: the dashboard computes its stats from a given ledger.
InitBalance ==
    /\ products = [l \in Listings |-> FirstListing]
    /\ orders = <<>>
    /\ transactions \in Ledgers
    /\ fails = 0
    /\ product = [b \in Buyers |-> "none"]
    /\ bpc = [b \in Buyers |-> "left"]
    /\ quantity = [b \in Buyers |-> 1]
    /\ latestQty = [b \in Buyers |-> 0]
    /\ latestPrice = [b \in Buyers |-> 0]
    /\ queue = [o \in Organizers |-> NoRow]
    /\ processing = [o \in Organizers |-> 0]
    /\ opc = [o \in Organizers |-> "idle"]
    /\ oarg = [o \in Organizers |-> 0]
    /\ currentQty = [o \in Organizers |-> 0]
    /\ txSnap = [o \in Organizers |-> <<>>]
    /\ pview = [p \in Payers |-> NoRow]
    /\ paying = [p \in Payers |-> 0]
    /\ ppc = [p \in Payers |-> "idle"]
    /\ parg = [p \in Payers |-> 0]
    /\ withdrawals = <<>>
    /\ stats = [d \in Dashboards |-> NullStats]
    /\ wpc = [d \in Dashboards |-> "idle"]
    /\ amount = [d \in Dashboards |-> 0]
    /\ withdrawalRef = [d \in Dashboards |-> 0]
    /\ formData = NoForm
    /\ collaterals = <<>>
    /\ purpose = "none"
    /\ newForm = NoNewForm
    /\ productRef = "none"
    /\ result = NoResult
    /\ now = 0

NextBalance ==
    SellerFetchData("d1")

SpecBalance == InitBalance /\ [][NextBalance]_vars

\* ---------------------------------------------------------------- properties
Available(l) == products[l].quantity_available

RECURSIVE SumQuantity(_, _, _)
\* total quantity of the first n orders of ords whose status is in sts
SumQuantity(ords, n, sts) ==
    IF n = 0 THEN 0
    ELSE (IF ords[n].status \in sts THEN ords[n].quantity ELSE 0)
         + SumQuantity(ords, n - 1, sts)

\* no handler is between two of its store calls
Quiescent ==
    /\ \A b \in Buyers : bpc[b] = "left"
    /\ \A o \in Organizers : opc[o] = "idle"
    /\ \A p \in Payers : ppc[p] = "idle"

\* C1: every listing's quantity_available is >= 0 in every reachable state,
\* whatever the interleaving of placements and rejections.
Inv_C1_StockNonNegative ==
    \A l \in Listings : Available(l) >= 0

\* C1 witness: placements and a rejection have acted and the stock is used up.
Wit_C1 ==
    /\ Len(orders) = MaxOrders
    /\ \E i \in OrderIds : orders[i].status = "cancelled"
    /\ \E i \in OrderIds : orders[i].status # "cancelled"
    /\ Available("L1") = 0
    /\ Quiescent

\* C2: concurrent placements never oversell: while no order is cancelled and
\* no write has thrown, the created orders' quantities sum to at most the
\* initial stock, and once the placements have ended quantity_available is
\* the initial stock minus that sum.
Cex_C2_NoOversell ==
    (fails = 0 /\ \A i \in OrderIds : orders[i].status # "cancelled")
    => /\ SumQuantity(orders, Len(orders), Statuses) <= InitQty
       /\ Quiescent =>
            Available("L1") = InitQty - SumQuantity(orders, Len(orders), Statuses)

\* C3: every change of an order's stored status follows the order state
\* machine (the observed sequence is a subsequence of pending, approved,
\* reserved, completed / pending, approved, cancelled / pending, cancelled);
\* cancelled and completed orders never change status again.
Cex_C3_StatusSequence ==
    [][LET moves ==
             { <<"pending", "approved">>, <<"pending", "reserved">>,
               <<"pending", "completed">>, <<"approved", "reserved">>,
               <<"approved", "completed">>, <<"reserved", "completed">>,
               <<"pending", "cancelled">>, <<"approved", "cancelled">> }
       IN \A i \in OrderIds :
             orders'[i].status # orders[i].status
             => <<orders[i].status, orders'[i].status>> \in moves]_vars

\* C4: every reserved order has a held transaction for its total price, in
\* every state (also between the store writes of handlePay).
Cex_C4_ReservedHasHold ==
    \A i \in OrderIds :
        orders[i].status = "reserved"
        => \E t \in DOMAIN transactions :
              /\ transactions[t].order_id = i
              /\ transactions[t].status = "held"
              /\ transactions[t].amount = orders[i].total_price

\* C5: every held positive transaction references a reserved order.
Cex_C5_HoldHasReserved ==
    \A t \in DOMAIN transactions :
        (transactions[t].status = "held" /\ transactions[t].amount > 0)
        => orders[transactions[t].order_id].status = "reserved"

\* C6: when handlePay's transaction write throws, the handler ends with the
\* order approved again, without paid_at / reservation_expiry, and with no
\* transaction for the order.
Cex_C6_PayRollback ==
    [][\A p \in Payers :
          (ppc[p] = "addDoc" /\ ppc'[p] = "idle" /\ fails' # fails)
          => /\ orders'[parg[p]].status = "approved"
             /\ ~ orders'[parg[p]].paid_at
             /\ orders'[parg[p]].reservation_expiry = 0
             /\ \A t \in DOMAIN transactions' :
                   transactions'[t].order_id # parg[p]]_vars

\* C7: at most one positive transaction references an order.
Cex_C7_OneHoldPerOrder ==
    \A i \in OrderIds :
        Cardinality({t \in DOMAIN transactions :
                        transactions[t].order_id = i
                        /\ transactions[t].amount > 0}) <= 1

\* C8: a Pay writes only to an order that is approved, and a Complete only to
\* an order that is reserved: a caller that comes second writes nothing.
Cex_C8_FirstCallerOnly ==
    [][/\ \A p \in Payers :
            (ppc[p] = "idle" /\ ppc'[p] = "addDoc")
            => orders[parg'[p]].status = "approved"
       /\ \A o \in Organizers :
            (opc[o] = "idle" /\ opc'[o] = "getDocs")
            => orders[oarg'[o]].status = "reserved"]_vars

\* C9: a cancel writes only to a pending or approved order (a second cancel
\* is rejected and writes nothing), and the stock write of a cancel makes
\* quantity_available exactly the order's quantity larger.
Cex_C9_CancelOnce ==
    [][\A o \in Organizers :
          /\ (opc[o] = "idle" /\ opc'[o] = "getDoc")
             => orders[oarg'[o]].status \in {"pending", "approved"}
          /\ (opc[o] = "updateDoc" /\ opc'[o] = "idle" /\ fails' = fails)
             => Available("L1")' = Available("L1") + orders[oarg[o]].quantity]_vars

\* C10: with no thrown write, once all handlers have ended quantity_available
\* is the initial quantity minus the quantities of all orders placed plus the
\* quantities of all orders cancelled.
Cex_C10_NoLostUpdate ==
    (fails = 0 /\ Quiescent)
    => Available("L1") = InitQty
                         - SumQuantity(orders, Len(orders), Statuses)
                         + SumQuantity(orders, Len(orders), {"cancelled"})

RECURSIVE SumSigned(_, _, _, _, _)
\* the sum of the amounts of the first n transactions of txs that belong to
\* user, have a status in sts and the sign of `sign` (1 or -1)
SumSigned(txs, n, user, sts, sign) ==
    IF n = 0 THEN 0
    ELSE (IF /\ txs[n].seller_id = user
             /\ txs[n].status \in sts
             /\ txs[n].amount * sign > 0
          THEN txs[n].amount ELSE 0)
         + SumSigned(txs, n - 1, user, sts, sign)

\* every status a transaction carries
TxStatuses == {"held", "released", "cleared"}

\* C11: a positive transaction is released only if the order it references
\* is completed.
Cex_C11_ReleasedOnlyCompleted ==
    \A t \in DOMAIN transactions :
        (transactions[t].status = "released" /\ transactions[t].amount > 0)
        => orders[transactions[t].order_id].status = "completed"

\* C12: once a Complete has succeeded and every handler has ended, the
\* completed order carries its completion timestamp, no transaction of the
\* order is still held, and the order's total price is in released
\* transactions (it has moved from pending to available).
Cex_C12_CompleteReleases ==
    (fails = 0 /\ Quiescent)
    => \A i \in OrderIds :
          orders[i].status = "completed"
          => /\ orders[i].completed_at
             /\ \A t \in DOMAIN transactions :
                   transactions[t].order_id = i
                   => transactions[t].status # "held"
             /\ \E t \in DOMAIN transactions :
                   /\ transactions[t].order_id = i
                   /\ transactions[t].status = "released"
                   /\ transactions[t].amount = orders[i].total_price

Cex_C14_WithdrawAll ==
    [][\A d \in Dashboards :
          (/\ wpc[d] = "addDoc" /\ wpc'[d] = "idle" /\ fails' = fails
           /\ AvailableBalance(transactions, Seller) > 0)
          => LET n == Len(transactions)
                 B == AvailableBalance(transactions, Seller) IN
             /\ Len(transactions') = n + 1
             /\ transactions'[n + 1].amount = 0 - B
             /\ transactions'[n + 1].status = "released"
             /\ transactions'[n + 1].order_id < 0
             /\ \A t \in 1..n :
                   transactions[t].order_id # transactions'[n + 1].order_id
             /\ AvailableBalance(transactions', Seller) = 0
             /\ PendingPayments(transactions', Seller)
                   = PendingPayments(transactions, Seller)]_vars

\* C15: while the balance computed from the ledger is zero or negative, a
\* Withdraw creates neither a withdrawal record nor a transaction.
Cex_C15_NothingToWithdraw ==
    [][AvailableBalance(transactions, Seller) <= 0
       => /\ withdrawals' = withdrawals
          /\ \A d \in Dashboards :
                (wpc[d] = "addDoc" /\ wpc'[d] = "idle")
                => transactions' = transactions]_vars

\* C16: the amounts withdrawn by a seller never sum to more than the
\* seller's released positive transactions.
Cex_C16_NoOverdraw ==
    LET n == Len(transactions) IN
    0 - SumSigned(transactions, n, Seller, TxStatuses, -1)
       <= SumSigned(transactions, n, Seller, {"released"}, 1)

\* C17: a placement whose quantity exceeds the quantity_available re-read
\* from the store ends without creating an order and without changing the
\* stock; an order is only ever created after a re-read that covered it.
Thm_C17_InsufficientStock ==
    [][/\ \A b \in Buyers :
            (/\ bpc[b] = "getDoc" /\ bpc'[b] # "getDoc"
             /\ quantity[b] > Available(product[b]))
            => /\ bpc'[b] = "left"
               /\ orders' = orders
               /\ products' = products
       /\ Len(orders') > Len(orders)
          => \E b \in Buyers :
                /\ bpc[b] = "addDoc"
                /\ bpc'[b] = "updateDoc"
                /\ quantity[b] <= latestQty[b]]_vars

\* C17 witness: Reserve was clicked for a quantity the loaded page allowed
\* and the store no longer covers when handleReserve re-reads it.
Wit_C17 ==
    \E b \in Buyers :
        /\ bpc[b] = "getDoc"
        /\ quantity[b] > Available(product[b])
        /\ Len(orders) > 0

\* C18: placement is all-or-nothing: when every handler has ended and no
\* order is cancelled, the stock is the initial stock minus the quantities
\* of the orders that exist (also after a thrown write).
Cex_C18_PlaceAllOrNothing ==
    (Quiescent /\ \A i \in OrderIds : orders[i].status # "cancelled")
    => Available("L1") = InitQty - SumQuantity(orders, Len(orders), Statuses)

\* C19: an order becomes approved only from pending, and the step that
\* approves it changes no listing and no transaction; an Approve on an
\* order in another status changes nothing.
Cex_C19_ApproveFrame ==
    [][\A i \in OrderIds :
          (orders'[i].status = "approved" /\ orders[i].status # "approved")
          => /\ orders[i].status = "pending"
             /\ products' = products
             /\ transactions' = transactions]_vars

\* C20: an order is created with total_price = quantity * the unit price
\* that the placement read, no later step changes it (a seller edit of the
\* price included), and the hold that Pay creates has that amount.
Thm_C20_TotalPriceFrozen ==
    [][/\ \A i \in OrderIds :
            orders'[i].total_price = orders[i].total_price
       /\ \A b \in Buyers :
            (bpc[b] = "getDoc" /\ bpc'[b] = "addDoc")
            => latestPrice'[b] = products[product[b]].price_per_unit
       /\ Len(orders') > Len(orders)
          => \E b \in Buyers :
                /\ bpc[b] = "addDoc"
                /\ orders'[Len(orders')].total_price
                      = orders'[Len(orders')].quantity * latestPrice[b]
       /\ Len(transactions') > Len(transactions)
          => LET t == transactions'[Len(transactions')] IN
             t.amount > 0 => t.amount = orders[t.order_id].total_price]_vars

\* C20 witness: a hold of the order's total price exists although the
\* listing's price has been edited since the order was placed.
Wit_C20 ==
    \E t \in DOMAIN transactions :
        /\ transactions[t].amount > 0
        /\ LET o == orders[transactions[t].order_id] IN
           /\ transactions[t].amount = o.total_price
           /\ o.total_price # o.quantity * products[o.product_id].price_per_unit

\* C21: each order carries approved_at only once it has been approved and
\* paid_at only once it has been paid, every approved order carries
\* approved_at and every reserved order paid_at; completed_at is set exactly
\* while the order is completed and cancelled_at exactly while it is
\* cancelled; reservation_expiry is null until the order is paid and set
\* from then on.
Cex_C21_StampsMatchStatus ==
    \A i \in OrderIds :
        LET o == orders[i] IN
        /\ o.status = "pending" => ~ o.approved_at /\ ~ o.paid_at
        /\ o.status = "approved" => o.approved_at
        /\ o.status = "reserved" => o.paid_at
        /\ o.completed_at <=> o.status = "completed"
        /\ o.cancelled_at <=> o.status = "cancelled"
        /\ o.paid_at <=> o.reservation_expiry # 0

\* C23: a listing's quantity_available is changed only by the stock write of
\* a placement (Reserve) and the stock write of a rejection (Restore); a
\* seller's edit that runs beside a placement leaves the placement's
\* decrement in place.
Cex_C23_StockFrame ==
    [][\A l \in DOMAIN products :
          products'[l].quantity_available # products[l].quantity_available
          => \/ \E b \in Buyers :
                   /\ bpc[b] = "updateDoc" /\ bpc'[b] = "left"
                   /\ product[b] = l
             \/ \E o \in Organizers :
                   /\ opc[o] = "updateDoc" /\ opc'[o] = "idle"
                   /\ orders[oarg[o]].product_id = l]_vars

\* C22: an order that is reserved or completed is never cancelled, and a
\* rejection handed an order that has been paid or completed does not
\* raise the listing's quantity_available.
Cex_C22_NoRestoreAfterPickup ==
    [][\A i \in OrderIds :
          /\ orders[i].status \in {"reserved", "completed"}
             => orders'[i].status # "cancelled"
          /\ \A o \in Organizers :
                (/\ opc[o] = "updateDoc" /\ oarg[o] = i
                 /\ (orders[i].paid_at \/ orders[i].completed_at))
                => Available(orders[i].product_id)' <= Available(orders[i].product_id)]_vars

\* C30: while an order is reserved, the passing of time changes nothing in
\* the store, whether or not reservation_expiry has been reached; the
\* order's status changes only by a Complete of that order, its held
\* transaction changes only by that Complete's release, and no step hands
\* the order's quantity back to the listing's stock.
Cex_C30_ReservedUntilComplete ==
    [][\A i \in OrderIds :
          orders[i].status = "reserved"
          => /\ now' # now => store' = store
             /\ orders'[i].status # "reserved"
                => \E o \in Organizers :
                      /\ opc[o] = "idle" /\ opc'[o] = "getDocs" /\ oarg'[o] = i
                      /\ orders'[i].status = "completed"
             /\ \A t \in DOMAIN transactions :
                   (/\ transactions[t].order_id = i
                    /\ transactions[t].status = "held"
                    /\ transactions'[t] # transactions[t])
                   => \E o \in Organizers : opc[o] = "release" /\ oarg[o] = i
             /\ \A o \in Organizers :
                   (opc[o] = "updateDoc" /\ oarg[o] = i)
                   => Available(orders[i].product_id)'
                         = Available(orders[i].product_id)]_vars

\* C24: the step that stores a collateral record stores it with status
\* pending for a listing that has is_active = false and is_collateral =
\* true, every stored record refers to such a listing, and in every
\* reachable state no listing has both is_active and is_collateral true.
Thm_C24_PledgeMarksListing ==
    /\ [](/\ \A l \in DOMAIN products :
               ~ (products[l].is_active /\ products[l].is_collateral)
          /\ \A k \in DOMAIN collaterals :
               /\ ~ products[collaterals[k].product_id].is_active
               /\ products[collaterals[k].product_id].is_collateral)
    /\ [][Len(collaterals') > Len(collaterals)
          => /\ Len(collaterals') = Len(collaterals) + 1
             /\ collaterals'[Len(collaterals')].status = "pending"
             /\ collaterals'[Len(collaterals')].product_id = productRef]_vars

\* C24 witness: a pledge has been created and its handler has ended, beside
\* a listing that was put up for sale.
Wit_C24 ==
    /\ purpose = "none"
    /\ \E k \in DOMAIN collaterals :
          /\ collaterals[k].status = "pending"
          /\ products[collaterals[k].product_id].is_collateral
          /\ ~ products[collaterals[k].product_id].is_active
    /\ \E l \in DOMAIN products \ Listings : products[l].is_active

\* C25: no order exists against a listing that is pledged as collateral
\* (every order's listing is on the market), and no step lowers the stock
\* of a pledged listing.
Cex_C25_NoOrderOnPledge ==
    /\ [](\A i \in OrderIds :
             /\ orders[i].product_id \in ActiveListings
             /\ ~ products[orders[i].product_id].is_collateral)
    /\ [][\A l \in DOMAIN products :
             products[l].is_collateral
             => Available(l)' >= Available(l)]_vars

\* C26: a pledge's status changes only from pending to verified, from
\* verified to active, and from active to released or defaulted; a released
\* or defaulted pledge keeps its status, and a step that changes a pledge's
\* status changes nothing else of the record.
Thm_C26_PledgeTransitions ==
    [][\A k \in DOMAIN collaterals :
          LET from == collaterals[k].status
              to == collaterals'[k].status
          IN /\ from \in {"released", "defaulted"} => to = from
             /\ to # from
                => /\ \/ from = "pending" /\ to = "verified"
                      \/ from = "verified" /\ to = "active"
                      \/ from = "active" /\ to \in {"released", "defaulted"}
                   /\ collaterals'[k] = [collaterals[k] EXCEPT !.status = to]]_vars

\* C26 witness: one pledge has been advanced to released and another to
\* defaulted.
Wit_C26 ==
    /\ \E k \in DOMAIN collaterals : collaterals[k].status = "released"
    /\ \E k \in DOMAIN collaterals : collaterals[k].status = "defaulted"

\* C27: the step that stores a collateral record copies quantity, unit
\* price and loan amount from the pledge form and stores their product as
\* the total value; no later step changes any of these fields of a stored
\* record.
Thm_C27_SnapshotFrozen ==
    [][/\ \A k \in DOMAIN collaterals :
            /\ k \in DOMAIN collaterals'
            /\ collaterals'[k].crop_quantity = collaterals[k].crop_quantity
            /\ collaterals'[k].crop_price_per_unit
                  = collaterals[k].crop_price_per_unit
            /\ collaterals'[k].crop_total_value = collaterals[k].crop_total_value
            /\ collaterals'[k].loan_amount_requested
                  = collaterals[k].loan_amount_requested
       /\ \A k \in DOMAIN collaterals' \ DOMAIN collaterals :
            /\ collaterals'[k].crop_quantity = newForm.quantity_available
            /\ collaterals'[k].crop_price_per_unit = newForm.price_per_unit
            /\ collaterals'[k].crop_total_value
                  = newForm.price_per_unit * newForm.quantity_available
            /\ collaterals'[k].loan_amount_requested = LoanAmount]_vars

\* C27 witness: the seller has edited a pledged listing after the pledge:
\* the listing's price is no longer the price in the record.
Wit_C27 ==
    /\ formData = NoForm
    /\ \E k \in DOMAIN collaterals :
          /\ products[collaterals[k].product_id].price_per_unit = MaxPrice
          /\ collaterals[k].crop_price_per_unit = UnitPrice
          /\ collaterals[k].crop_total_value
                = UnitPrice * collaterals[k].crop_quantity

\* C28: no two collateral records carry the same collateral_id, and a
\* record the bank's lookup shows is the only record with its collateral_id.
Cex_C28_FreshCollateralId ==
    /\ \A j, k \in DOMAIN collaterals :
          j # k => collaterals[j].collateral_id # collaterals[k].collateral_id
    /\ result # NoResult
       => Cardinality(Matching(result.collateral_id)) = 1

\* C29: the step that creates an order stores the pickup code drawn for it,
\* and no later step (Approve, Reject, Pay, Complete or any other) changes
\* the pickup_code of a stored order.
Thm_C29_PickupCodeFrozen ==
    [][/\ \A i \in OrderIds :
            /\ i \in DOMAIN orders'
            /\ orders'[i].pickup_code = orders[i].pickup_code
       /\ \A i \in DOMAIN orders' \ OrderIds :
            \E n \in DOMAIN PickupCodes : orders'[i].pickup_code = PickupCodes[n]]_vars

\* C29 witness: one order has been approved, paid and completed and
\* another has been rejected; each still carries a pickup code.
Wit_C29 ==
    /\ Quiescent
    /\ \E i \in OrderIds :
          /\ orders[i].status = "completed"
          /\ orders[i].approved_at /\ orders[i].paid_at
          /\ orders[i].pickup_code = PickupCodes[1]
    /\ \E i \in OrderIds :
          /\ orders[i].status = "cancelled"
          /\ ~ orders[i].approved_at

\* C31: a Complete of an order that has no held transaction (none was
\* created, or all were released before) makes the order completed like any
\* other Complete, and its release step then ends the handler without a
\* failure and without changing any transaction or any other document.
Thm_C31_ReleaseNoOp ==
    [][\A o \in Organizers :
          /\ (opc[o] = "idle" /\ opc'[o] = "getDocs")
             => orders'[oarg'[o]].status = "completed"
          /\ (/\ opc[o] = "getDocs" /\ opc'[o] # "getDocs"
              /\ HeldOf(oarg[o], Len(transactions)) = <<>>)
             => /\ store' = store
                /\ fails' = fails
                /\ opc'[o] = "idle"
                /\ processing'[o] = 0]_vars

\* C31 witness: the payment's transaction write threw, the reserved order
\* was handed over, and the Complete has ended with the order completed and
\* no transaction stored for it.
Wit_C31 ==
    /\ Quiescent
    /\ fails > 0
    /\ \E i \in OrderIds :
          /\ orders[i].status = "completed"
          /\ orders[i].paid_at
          /\ \A t \in DOMAIN transactions : transactions[t].order_id # i
    /\ \A o \in Organizers : processing[o] = 0

\* C32: every transaction that a payment creates for an order has an amount
\* greater than zero, whatever price the listing was put up with and
\* whatever quantity was ordered.
Cex_C32_HoldPositive ==
    \A t \in DOMAIN transactions :
        transactions[t].order_id \in OrderIds => transactions[t].amount > 0

\* C33: stock conservation: whenever no handler is between two store calls,
\* each listing's quantity_available plus the quantities of its orders that
\* are pending, approved, reserved or completed is the quantity the listing
\* was created with (the seller does not edit the listing).
Cex_C33_StockConserved ==
    Quiescent
    => \A l \in Listings :
          Available(l)
          + SumQuantity(orders, Len(orders),
                        {"pending", "approved", "reserved", "completed"})
          = InitQty

RECURSIVE SumTotalPrice(_, _, _, _)
\* the sum of total_price over the first n orders of ords that belong to
\* the seller user and have a status in sts
SumTotalPrice(ords, n, user, sts) ==
    IF n = 0 THEN 0
    ELSE (IF ords[n].seller_id = user /\ ords[n].status \in sts
          THEN ords[n].total_price ELSE 0)
         + SumTotalPrice(ords, n - 1, user, sts)

\* no handler of any page, the seller's dashboards included, is between two
\* of its store calls
QuiescentAll ==
    /\ Quiescent
    /\ \A d \in Dashboards : wpc[d] = "idle"

\* C34: funds conservation: whenever no handler is between two store calls,
\* the seller's pending amount plus available balance plus the amount
\* withdrawn (the negated sum of the withdrawal transactions) is the sum of
\* total_price over the seller's reserved and completed orders.
Cex_C34_FundsConserved ==
    QuiescentAll
    => PendingPayments(transactions, Seller)
       + AvailableBalance(transactions, Seller)
       - SumSigned(transactions, Len(transactions), Seller, TxStatuses, -1)
       = SumTotalPrice(orders, Len(orders), Seller, {"reserved", "completed"})

\* C35: the available balance that the seller's ledger gives (released and
\* cleared amounts, withdrawals included) is never below zero, whatever the
\* interleaving of payments, completions and withdrawals.
Cex_C35_BalanceNonNegative ==
    AvailableBalance(transactions, Seller) >= 0

Cex_C37_WithdrawUnit ==
    QuiescentAll
    => /\ \A w \in DOMAIN withdrawals :
             Cardinality({t \in DOMAIN transactions :
                             /\ transactions[t].order_id = WithdrawalRefId(w)
                             /\ transactions[t].amount = 0 - withdrawals[w].amount
                             /\ transactions[t].status = "released"}) = 1
       /\ \A t \in DOMAIN transactions :
             transactions[t].amount < 0
             => \E w \in DOMAIN withdrawals :
                   /\ transactions[t].order_id = WithdrawalRefId(w)
                   /\ transactions[t].amount = 0 - withdrawals[w].amount

\* C38: pledge creation is a unit: whenever the new-product handler is not
\* between its two store calls, every listing with is_collateral = true has
\* exactly one collateral record that refers to it by product_id (also
\* after a thrown write), and every collateral record refers to a stored
\* listing that is marked as collateral.
Cex_C38_PledgeUnit ==
    productRef = "none"
    => /\ \A l \in DOMAIN products :
             products[l].is_collateral
             => Cardinality({k \in DOMAIN collaterals :
                                collaterals[k].product_id = l}) = 1
       /\ \A k \in DOMAIN collaterals :
             /\ collaterals[k].product_id \in DOMAIN products
             /\ products[collaterals[k].product_id].is_collateral

====
